---- MODULE Spec2Model ----
(***************************************************************************)
(* Vehicle maintenance REST service: bearer-token authentication, request  *)
(* validation, owner-scoped CRUD on vehicles / oil_changes / fuel_records  *)
(* and pagination, as implemented by the controllers, the routes and the   *)
(* auth middleware.  Every SQL statement is one atomic step of the store;  *)
(* a handler is the sequence of its statements, and the statements of      *)
(* requests in flight interleave freely.                                   *)
(***************************************************************************)
EXTENDS Integers, Sequences, FiniteSets, TLC

VARIABLES
  vehicles,      \* table vehicles: set of rows [id, user_id, name, license_plate, created_at]
  children,      \* children[t]: table t (oil_changes / fuel_records), a set of rows
  nextId,        \* nextId[t]: next value of table t's SERIAL sequence
  inflight,      \* inflight[c]: the request client c has in flight, or Idle
  resp,          \* the response sent by the last step, or NoResp if it sent none
  tbl,           \* the child table the clients of this run work on
  removed,       \* history: the rows [table, id] that a deleteVehicle took away
  pool,          \* the connection pool: the db module in use, VERCEL, connections of other work
  conn           \* per client, where its request stands in the query helper

vars == <<vehicles, children, nextId, inflight, resp, tbl, removed, pool, conn>>

----------------------------------------------------------------------------
(* Bounds and the small input sets the requests are drawn from.            *)

\* total number of rows ever inserted, over all tables
MaxInserts == 3

\* Concurrent client connections, each with at most one request in flight.  A
\* statement that only reads leaves the store as it is, so a request is disturbed
\* only by requests that write: c1 sends any request, as anyone, and c2 sends the
\* requests that write, as user 1 (the users are interchangeable).
Clients == {"c1", "c2"}

\* an optional value: Absent (undefined / NULL) or Some(x)
Absent == <<>>
Some(x) == <<x>>
Val(o) == o[1]
Users == {1, 2}
VEH == "vehicles"
OIL == "oil_changes"
FUEL == "fuel_records"
ChildTables == {OIL, FUEL}
Tables == {VEH} \cup ChildTables

Email(u) == IF u = 1 THEN "a@x.com" ELSE "b@x.com"

\* a signed token: signature, not-before and expiry relative to now, payload
Jws(sig, nbf, exp, u) ==
  [form |-> "jws", sig |-> sig, nbf |-> nbf, exp |-> exp, id |-> u, email |-> Email(u)]

NoToken == [form |-> "none", sig |-> "none", nbf |-> "none", exp |-> "none", id |-> 0, email |-> ""]

Tokens ==
  {Jws("good", "past", "future", u) : u \in Users}      \* verifies
  \cup {Jws("good", "past", "past", 1)}                 \* signed, expired
  \cup {Jws("bad", "past", "future", 1)}                \* forged
  \cup {Jws("bad", "past", "past", 2)}                  \* forged and expired
  \cup {Jws("good", "future", "future", 1)}             \* signed, not yet valid
  \cup {[NoToken EXCEPT !.form = "garbage"]}             \* not a JWS at all
  \cup {[NoToken EXCEPT !.form = "empty"]}               \* "Bearer " and nothing after it

\* the Authorization header: absent, another scheme, or "Bearer <token>"
Headers ==
  {[scheme |-> "none", token |-> NoToken], [scheme |-> "Basic", token |-> NoToken]}
  \cup {[scheme |-> "Bearer ", token |-> t] : t \in Tokens}

\* id path parameters: 0 violates isInt({min: 1}); 1 names the first row of a table
IdParams == {0, 1}

\* page / limit query parameters as sent by the client
ListQueries ==
  { [page |-> Absent,   limit |-> Absent],
    [page |-> Some(2),  limit |-> Some(1)],
    [page |-> Absent,   limit |-> Some(101)],
    [page |-> Some(-1), limit |-> Some(1)] }

NoQuery == [page |-> Absent, limit |-> Absent]

\* search terms sent to GET /api/vehicles
Searches == {Absent, Some(<<"_">>)}

\* request bodies; the first of each set is the default for bodiless routes
\* strings that the code inspects are sequences of characters
VehicleBodies ==
  { [name |-> <<"C", "i">>, license_plate |-> Absent],
    [name |-> <<>>, license_plate |-> Absent] }

\* a mileage may exceed 32 bits: Num(hi, lo) is the integer hi * 100000 + lo
\* with 0 <= lo < 100000, so -1 is Num(-1, 99999) and 2147483648 is Num(21474, 83648)
Num(hi, lo) == [hi |-> hi, lo |-> lo]
geq(a, b) == a.hi > b.hi \/ (a.hi = b.hi /\ a.lo >= b.lo)

OilBodies ==
  { [change_date |-> 1, mileage |-> Num(0, 0), notes |-> Absent],
    [change_date |-> 2, mileage |-> Num(0, 7), notes |-> Some(<<"n">>)],
    [change_date |-> 1, mileage |-> Num(-1, 99999), notes |-> Absent],
    [change_date |-> 1, mileage |-> Num(21474, 83648), notes |-> Absent] }

\* decimals are counted in thousandths: 10 is 0.01
FuelBodies ==
  { [fill_date |-> 1, price_per_liter |-> 10, liters_filled |-> 1000],
    [fill_date |-> 2, price_per_liter |-> 15, liters_filled |-> 1000],
    [fill_date |-> 2, price_per_liter |-> 0, liters_filled |-> 1000],
    [fill_date |-> 1, price_per_liter |-> 5, liters_filled |-> 1000] }

NoBody == [none |-> TRUE]

\* process.env.NODE_ENV; "" is unset
Modes == {"production", "development", "test", ""}

\* a body the body parser gives up on, named by the type of the error it raises
ParserErrors == {"entity.parse.failed", "entity.too.large", "charset.unsupported"}

Bodies(t) == IF t = VEH THEN VehicleBodies ELSE IF t = OIL THEN OilBodies ELSE FuelBodies

----------------------------------------------------------------------------
(* Credential verifier.                                                    *)

\* jwt.verify(token, secret): structure, then signature, then nbf, then exp
jwtVerify(token) ==
  IF token.form # "jws" \/ token.sig # "good"
    THEN [ok |-> FALSE, name |-> "JsonWebTokenError", id |-> 0, email |-> ""]
  ELSE IF token.nbf = "future"
    THEN [ok |-> FALSE, name |-> "NotBeforeError", id |-> 0, email |-> ""]
  ELSE IF token.exp = "past"
    THEN [ok |-> FALSE, name |-> "TokenExpiredError", id |-> 0, email |-> ""]
  ELSE [ok |-> TRUE, name |-> "", id |-> token.id, email |-> token.email]

NoUser == [id |-> 0, email |-> ""]

Deny(status, message) == [next |-> FALSE, status |-> status, message |-> message, user |-> NoUser]

authMiddleware_noVerify(header) ==
  IF header.scheme = "none"
    THEN Deny(401, "No token provided, access denied")
  ELSE IF header.scheme # "Bearer "
    THEN Deny(401, "Invalid token format, use Bearer token")
  ELSE [next |-> TRUE, status |-> 0, message |-> "",
        user |-> [id |-> header.token.id, email |-> header.token.email]]

authMiddleware_oneMessage(header) ==
  IF header.scheme = "none"
    THEN Deny(401, "No token provided, access denied")
  ELSE IF header.scheme # "Bearer "
    THEN Deny(401, "Invalid token format, use Bearer token")
  ELSE LET decoded == jwtVerify(header.token) IN
    IF decoded.ok
      THEN [next |-> TRUE, status |-> 0, message |-> "",
            user |-> [id |-> decoded.id, email |-> decoded.email]]
    ELSE IF decoded.name \in {"JsonWebTokenError", "TokenExpiredError"}
      THEN Deny(401, "Invalid token")
    ELSE Deny(500, "Server error during authentication")

authMiddleware(header) ==
  IF header.scheme = "none"
    THEN Deny(401, "No token provided, access denied")
  ELSE IF header.scheme # "Bearer "
    THEN Deny(401, "Invalid token format, use Bearer token")
  ELSE LET decoded == jwtVerify(header.token) IN
    IF decoded.ok
      THEN [next |-> TRUE, status |-> 0, message |-> "",
            user |-> [id |-> decoded.id, email |-> decoded.email]]
    ELSE IF decoded.name = "JsonWebTokenError"
      THEN Deny(401, "Invalid token")
    ELSE IF decoded.name = "TokenExpiredError"
      THEN Deny(401, "Token expired")
    ELSE Deny(500, "Server error during authentication")

----------------------------------------------------------------------------
(* Request validator: the chains the routes declare.                       *)

MinId == 1
MinPage == 1
MinLimit == 1
MaxLimit == 100
MinNameLen == 1
MaxNameLen == 100
MaxPlateLen == 20
MaxNotesLen == 1000
MaxSearchLen == 100
MinMileage == 0
MinDecimal == 10

\* optional(): the chain is skipped when the field is undefined
optional(o, ok) == o = Absent \/ ok

idValidation(req) ==
  IF req.id >= MinId THEN {} ELSE {"id"}

queryValidation(req) ==
  (IF optional(req.query.page, Val(req.query.page) >= MinPage) THEN {} ELSE {"page"})
  \cup (IF optional(req.query.limit,
                    Val(req.query.limit) >= MinLimit /\ Val(req.query.limit) <= MaxLimit)
          THEN {} ELSE {"limit"})
  \cup (IF optional(req.search, Len(Val(req.search)) <= MaxSearchLen) THEN {} ELSE {"search"})

createVehicleValidation(req) ==
  (IF Len(req.body.name) >= MinNameLen /\ Len(req.body.name) <= MaxNameLen
     THEN {} ELSE {"name"})
  \cup (IF optional(req.body.license_plate, Len(Val(req.body.license_plate)) <= MaxPlateLen)
          THEN {} ELSE {"license_plate"})

oilChangeValidation(req) ==
  (IF geq(req.body.mileage, Num(0, MinMileage)) THEN {} ELSE {"mileage"})
  \cup (IF optional(req.body.notes, Len(Val(req.body.notes)) <= MaxNotesLen)
          THEN {} ELSE {"notes"})

fuelRecordValidation(req) ==
  (IF req.body.price_per_liter >= MinDecimal THEN {} ELSE {"price_per_liter"})
  \cup (IF req.body.liters_filled >= MinDecimal THEN {} ELSE {"liters_filled"})

bodyValidation(req) ==
  IF req.table = VEH THEN createVehicleValidation(req)
  ELSE IF req.table = OIL THEN oilChangeValidation(req)
  ELSE fuelRecordValidation(req)

\* the violations the validators of the request's route collect on the request
declaredErrors(req) ==
  CASE req.kind = "create" /\ req.table = VEH -> bodyValidation(req)
    [] req.kind = "list" /\ req.table = VEH -> queryValidation(req)
    [] req.kind = "create" -> idValidation(req) \cup bodyValidation(req)
    [] req.kind = "list" -> idValidation(req) \cup queryValidation(req)
    [] req.kind = "update" -> idValidation(req) \cup bodyValidation(req)
    [] OTHER -> idValidation(req)

\* the violations the controller looks at: only createVehicle and create / update of
\* a child record call validationResult(req); the other controllers never do
validationResult(req) ==
  IF req.kind \in {"create", "update"} THEN declaredErrors(req) ELSE {}

\* parseInt(x) || dflt
parseIntOr(o, dflt) == IF o # Absent /\ Val(o) # 0 THEN Val(o) ELSE dflt

DefaultPage == 1
DefaultLimit == 10

pageOf(req) == parseIntOr(req.query.page, DefaultPage)
limitOf(req) == parseIntOr(req.query.limit, DefaultLimit)
offsetOf(req) == (pageOf(req) - 1) * limitOf(req)

----------------------------------------------------------------------------
(* The store: the SQL statements the controllers issue, as operators on    *)
(* the tables.                                                             *)

Max(S) == CHOOSE x \in S : \A y \in S : y <= x
Min2(a, b) == IF a < b THEN a ELSE b

\* x || null
orNull(o) == IF o = Absent \/ Val(o) = <<>> THEN Absent ELSE o

\* DEFAULT CURRENT_TIMESTAMP: after every row of the table, or, when the INSERT
\* overlapped another one, possibly the same instant as the newest row (two
\* inserts within the clock's resolution)
currentTimestamp(rows, overlap) ==
  IF rows = {} THEN {1}
  ELSE LET m == Max({r.created_at : r \in rows}) IN
       IF overlap THEN {m, m + 1} ELSE {m + 1}

\* mileage INTEGER: a value outside -2147483648 .. 2147483647 is refused by the
\* store ("value out of range for type integer") when the statement's parameters
\* are bound, before the statement runs
MaxInt4 == Num(21474, 83647)
MinInt4 == Num(-21475, 16352)
outOfRange(t, body) ==
  t = OIL /\ ~(geq(MaxInt4, body.mileage) /\ geq(body.mileage, MinInt4))

\* NUMERIC(10, 2): thousandths rounded to hundredths, half away from zero
numeric2(x) == ((x + 5) \div 10) * 10

\* SELECT ... FROM vehicles WHERE id = $1 AND user_id = $2
selectVehicle_anyOwner(vs, id, userId) == {v \in vs : v.id = id}
selectVehicle(vs, id, userId) == {v \in vs : v.id = id /\ v.user_id = userId}

\* SELECT c.id FROM <t> c JOIN vehicles v ON c.vehicle_id = v.id
\*   WHERE c.id = $1 AND v.user_id = $2
selectOwnedChild(vs, rows, id, userId) ==
  {r \in rows : r.id = id /\ \E v \in vs : v.id = r.vehicle_id /\ v.user_id = userId}

lower(ch) == IF ch = "C" THEN "c" ELSE IF ch = "I" THEN "i" ELSE ch
toLowerCase(str) == [i \in 1..Len(str) |-> lower(str[i])]

\* str LIKE pattern, with the wildcards % and _
RECURSIVE like(_, _)
like(str, pat) ==
  IF pat = <<>> THEN str = <<>>
  ELSE IF Head(pat) = "%"
    THEN like(str, Tail(pat)) \/ (str # <<>> /\ like(Tail(str), pat))
  ELSE str # <<>> /\ (Head(pat) = "_" \/ Head(pat) = Head(str)) /\ like(Tail(str), Tail(pat))

\* WHERE user_id = $1 [AND (LOWER(name) LIKE $2 OR LOWER(license_plate) LIKE $2)]
whereClause(v, userId, search) ==
  /\ v.user_id = userId
  /\ \/ search = Absent
     \/ Val(search) = <<>>
     \/ LET searchPattern == <<"%">> \o toLowerCase(Val(search)) \o <<"%">> IN
        \/ like(toLowerCase(v.name), searchPattern)
        \/ v.license_plate # Absent /\ like(toLowerCase(Val(v.license_plate)), searchPattern)

\* every order of the rows S that ORDER BY allows: rows that tie on the sort keys
\* come in any order, and the order may differ from one statement to the next
\* (before: the pairs <<a, b>> of rows the sort keys put in this order)
orderBy(S, before) ==
  {f \in [1..Cardinality(S) -> S] :
     /\ \A i, j \in DOMAIN f : i # j => f[i] # f[j]
     /\ \A i, j \in DOMAIN f : i < j => <<f[j], f[i]>> \notin before}

\* LIMIT $limit OFFSET $offset
limitOffset(f, limit, offset) == SubSeq(f, offset + 1, Min2(Len(f), offset + limit))

\* LIMIT and OFFSET must not be negative
pageError(limit, offset) == limit < 0 \/ offset < 0

\* ORDER BY created_at DESC
newestFirst(a, b) == a.created_at > b.created_at

DateOf(t, r) == IF t = OIL THEN r.change_date ELSE r.fill_date

\* ORDER BY change_date DESC, created_at DESC (fill_date for fuel_records)
byDateDesc_oil(a, b) ==
  \/ a.change_date > b.change_date
  \/ a.change_date = b.change_date /\ a.created_at > b.created_at
byDateDesc_fuel(a, b) ==
  \/ a.fill_date > b.fill_date
  \/ a.fill_date = b.fill_date /\ a.created_at > b.created_at

\* SELECT COUNT(*) FROM vehicles <whereClause>
countVehicles(vs, userId, search) ==
  Cardinality({v \in vs : whereClause(v, userId, search)})

\* SELECT * FROM vehicles <whereClause> ORDER BY created_at DESC LIMIT .. OFFSET ..
selectVehicles(vs, userId, search, limit, offset) ==
  LET S == {v \in vs : whereClause(v, userId, search)} IN
  {limitOffset(f, limit, offset) :
     f \in orderBy(S, {ab \in S \X S : newestFirst(ab[1], ab[2])})}

\* SELECT COUNT(*) FROM <t> WHERE vehicle_id = $1
countChildren(rows, vehicleId) == Cardinality({r \in rows : r.vehicle_id = vehicleId})

\* SELECT * FROM <t> WHERE vehicle_id = $1 ORDER BY <date> DESC, created_at DESC LIMIT .. OFFSET ..
selectChildren(t, rows, vehicleId, limit, offset) ==
  LET S == {r \in rows : r.vehicle_id = vehicleId} IN
  {limitOffset(f, limit, offset) :
     f \in orderBy(S, {ab \in S \X S : IF t = OIL THEN byDateDesc_oil(ab[1], ab[2])
                                                   ELSE byDateDesc_fuel(ab[1], ab[2])})}

\* Math.ceil(totalItems / limit), for limit > 0
ceilDiv(totalItems, limit) == (totalItems + limit - 1) \div limit

\* the row INSERT INTO <t> ... RETURNING * creates
newVehicle(id, userId, body, ts) ==
  [id |-> id, user_id |-> userId, name |-> body.name,
   license_plate |-> orNull(body.license_plate), created_at |-> ts]

newChild(t, id, vehicleId, body, ts) ==
  IF t = OIL
    THEN [id |-> id, vehicle_id |-> vehicleId, change_date |-> body.change_date,
          mileage |-> body.mileage, notes |-> orNull(body.notes), created_at |-> ts]
    ELSE [id |-> id, vehicle_id |-> vehicleId, fill_date |-> body.fill_date,
          price_per_liter |-> numeric2(body.price_per_liter),
          liters_filled |-> numeric2(body.liters_filled), created_at |-> ts]

\* UPDATE <t> SET ... WHERE id = $4 RETURNING *
updatedChild_moved(t, r, body) == [r EXCEPT !.vehicle_id = @ + 1]
updatedChild(t, r, body) ==
  IF t = OIL
    THEN [r EXCEPT !.change_date = body.change_date, !.mileage = body.mileage,
                   !.notes = orNull(body.notes)]
    ELSE [r EXCEPT !.fill_date = body.fill_date,
                   !.price_per_liter = numeric2(body.price_per_liter),
                   !.liters_filled = numeric2(body.liters_filled)]

\* id SERIAL PRIMARY KEY: the sequence moves on with every INSERT that runs
nextval_stuck(n) == n
nextval(n) == n + 1

\* UPDATE / DELETE ... WHERE id = $n on a child table
whereId_all(rows, id) == rows
whereId(rows, id) == {r \in rows : r.id = id}

\* vehicle_id INTEGER NOT NULL REFERENCES vehicles(id): the INSERT of a child row is
\* accepted only when the vehicle is there
references_unchecked(vs, vehicleId) == TRUE
references(vs, vehicleId) == \E v \in vs : v.id = vehicleId

\* ON DELETE CASCADE: the rows of a child table that go with the vehicles gone
cascaded_none(rows, gone) == {}
cascaded(rows, gone) == {r \in rows : \E v \in gone : r.vehicle_id = v.id}

\* the principal that owns a row at this moment (0 if its vehicle is gone)
ownerOfVehicleId(vs, vehicleId) ==
  IF \E v \in vs : v.id = vehicleId
    THEN (CHOOSE v \in vs : v.id = vehicleId).user_id ELSE 0

----------------------------------------------------------------------------
(* Requests, requests in flight and responses.                             *)

Req(kind, table, header, id, query, search, body) ==
  [kind |-> kind, table |-> table, header |-> header, id |-> id,
   query |-> query, search |-> search, body |-> body]

DefaultBody(t) ==
  IF t = VEH THEN {[name |-> <<"C", "i">>, license_plate |-> Absent]}
  ELSE IF t = OIL THEN {[change_date |-> 1, mileage |-> Num(0, 0), notes |-> Absent]}
  ELSE {[fill_date |-> 1, price_per_liter |-> 10, liters_filled |-> 1000]}

\* the requests of every route that carry the header h
RouteRequests(h, ids, queries, searches, full) ==
  LET bodies(t) == IF full THEN Bodies(t) ELSE DefaultBody(t) IN
  {Req("create", VEH, h, 0, NoQuery, Absent, b) : b \in bodies(VEH)}
  \cup {Req("list", VEH, h, 0, q, s, NoBody) : q \in queries, s \in searches}
  \cup {Req(k, VEH, h, i, NoQuery, Absent, NoBody) : k \in {"get", "delete"}, i \in ids}
  \cup UNION { {Req(k, t, h, i, NoQuery, Absent, b) :
                   k \in {"create", "update"}, i \in ids, b \in bodies(t)}
               \cup {Req("list", t, h, i, q, Absent, NoBody) : i \in ids, q \in queries}
               \cup {Req("delete", t, h, i, NoQuery, Absent, NoBody) : i \in ids}
               : t \in ChildTables }

\* Every request with a token that verifies; with any other header, one request
\* per route (the middleware looks at the header alone) and the POST /api/vehicles
\* whose body violates a constraint.
Requests ==
  UNION {IF jwtVerify(h.token).ok /\ h.scheme = "Bearer "
           THEN RouteRequests(h, IdParams, ListQueries, Searches, TRUE)
           ELSE RouteRequests(h, {1}, {NoQuery}, {Absent}, FALSE)
                \cup {Req("create", VEH, h, 0, NoQuery, Absent, b) : b \in VehicleBodies}
         : h \in Headers}

\* what router.use(authMiddleware) and the controller's validationResult check let through
Accepted == {req \in Requests : authMiddleware(req.header).next /\ validationResult(req) = {}}
Rejected == Requests \ Accepted

\* the requests client c sends
Sends(c) ==
  IF c = "c1" THEN Accepted
  ELSE {req \in Accepted : /\ req.kind \in {"create", "update", "delete"}
                            /\ req.header.token.id = 1
                            /\ req.id = IF req.kind = "create" /\ req.table = VEH THEN 0 ELSE 1}

\* requests answered by the application itself: a CORS preflight, GET /, GET /health,
\* a path no router has, and a POST whose body the parser gives up on, each with
\* and without a token that verifies
AppHeaders == {h \in Headers : h.scheme = "none" \/ (h.scheme = "Bearer " /\ h.token = Jws("good", "past", "future", 1))}
AppRequests ==
  {Req(k, VEH, h, 0, NoQuery, Absent, NoBody) :
     k \in {"options", "root", "health", "unknown"}, h \in AppHeaders}
  \cup {Req("create", t, h, 1, NoQuery, Absent, [type |-> e]) :
          t \in Tables, h \in AppHeaders, e \in ParserErrors}

NoReq == Req("none", VEH, [scheme |-> "none", token |-> NoToken], 0, NoQuery, Absent, NoBody)

\* a request addresses a vehicle (get / delete vehicle, create / list child records)
\* or a child record (update / delete child record); createVehicle and the
\* vehicle list address no row
Addressed(req) ==
  /\ req.kind \in {"create", "list", "get", "update", "delete"}
  /\ ~(req.table = VEH /\ req.kind \in {"create", "list"})
  /\ DOMAIN req.body # {"type"}
TargetTable(req) == IF req.kind \in {"create", "list"} THEN VEH ELSE req.table

\* the request addresses a row that a deleteVehicle took away
Late(req) == Addressed(req) /\ [table |-> TargetTable(req), id |-> req.id] \in removed

\* a statement sent to the store: its verb, its table, and how its own predicate is
\* scoped: "owner" (user_id = $n), "join" (through the join to vehicles) or "none"
Stmt(verb, table, scope) == [verb |-> verb, table |-> table, scope |-> scope]

\* a request in flight: the principal the middleware attached, the statement it
\* waits for, the controller's locals, and a record of what it did so far:
\*   stmts     the statements it sent
\*   foreign   a statement of it returned or changed a row of another principal
\*   dirty     a row in the scope of this list changed since its count query
\*   affected  the rows its last UPDATE / DELETE changed
\*   overlap   another INSERT into the same table ran while its INSERT was under way
\*   late      it arrived after a deleteVehicle took away the row it addresses
Flight(req, user, pc) ==
  [req |-> req, user |-> user, pc |-> pc, totalItems |-> 0,
   stmts |-> <<>>, foreign |-> FALSE, dirty |-> FALSE, affected |-> 0, overlap |-> FALSE,
   late |-> FALSE]

Idle == Flight(NoReq, NoUser, "idle")

\* a client with no request in the query helper
Detached == [pc |-> "idle", held |-> FALSE, left |-> 0, req |-> NoReq]

\* the statement the controller of the request sends first
firstPc(req) ==
  CASE req.kind = "create" /\ req.table = VEH -> "insert"
    [] req.kind = "list" /\ req.table = VEH -> "count"
    [] req.kind = "get" -> "select"
    [] req.kind \in {"create", "list"} -> "verify"
    [] OTHER -> "check"

\* detail: the body carries the text or the fields of the error that was caught
Json(status, message, errors, data, pagination) ==
  [status |-> status, message |-> message, errors |-> errors, data |-> data,
   pagination |-> pagination, detail |-> FALSE]

Success(data, pagination) == Json("success", "", {}, data, pagination)
Failure_noMessage(message, errors) == Json("error", "", errors, <<>>, Absent)
Failure(message, errors) == Json("error", message, errors, <<>>, Absent)
\* res.end() with Content-Length: 0
NoJson == Json("none", "", {}, <<>>, Absent)

\* res.status(status).json(json), sent by the middleware or a controller;
\* env is the NODE_ENV value the handler read, "unread" when it reads none
Response(stage, f, status, json) ==
  [sent |-> TRUE, stage |-> stage, req |-> f.req, user |-> f.user, status |-> status,
   json |-> json, stmts |-> f.stmts, foreign |-> f.foreign, dirty |-> f.dirty,
   affected |-> f.affected, late |-> f.late, env |-> "unread"]

NoResp ==
  [sent |-> FALSE, stage |-> "none", req |-> NoReq, user |-> NoUser, status |-> 0,
   json |-> Failure("", {}), stmts |-> <<>>, foreign |-> FALSE, dirty |-> FALSE,
   affected |-> 0, late |-> FALSE, env |-> "unread"]

\* f after it sent the statement st
Sent(f, st) == [f EXCEPT !.stmts = Append(@, st)]

NoChange == [t \in Tables |-> {}]

\* rows in the scope of the list request f
InScope(f, r) ==
  IF f.req.table = VEH THEN r.user_id = f.user.id ELSE r.vehicle_id = f.req.id

\* the requests in flight after the rows ch[t] of each table t changed: a list
\* request between its count and its item query notes it
Mark(infl, ch) ==
  [d \in Clients |->
     IF /\ infl[d].req.kind = "list"
        /\ infl[d].pc = "select"
        /\ \E r \in ch[infl[d].req.table] : InScope(infl[d], r)
       THEN [infl[d] EXCEPT !.dirty = TRUE]
       ELSE infl[d]]

\* the requests in flight after an INSERT into table t ran
Overlap(infl, t) ==
  [d \in Clients |->
     IF infl[d].req.kind = "create" /\ infl[d].req.table = t /\ infl[d].pc = "insert"
       THEN [infl[d] EXCEPT !.overlap = TRUE]
       ELSE infl[d]]

\* no response is on its way out
Ready == ~resp.sent

Quiet == \A d \in Clients : inflight[d].pc = "idle"

\* rows inserted so far plus the inserts in flight
Issued == (nextId[VEH] - 1) + (nextId[OIL] - 1) + (nextId[FUEL] - 1)
Reserved == Cardinality({d \in Clients : inflight[d].req.kind = "create"})

notFoundMessage(kind, t) ==
  CASE t = VEH /\ kind = "delete" -> "Vehicle not found or you do not have permission to delete it"
    [] t = VEH \/ kind \in {"create", "list"} ->
         "Vehicle not found or you do not have permission to access it"
    [] t = OIL /\ kind = "update" ->
         "Oil change record not found or you do not have permission to modify it"
    [] t = OIL -> "Oil change record not found or you do not have permission to delete it"
    [] t = FUEL /\ kind = "update" ->
         "Fuel record not found or you do not have permission to modify it"
    [] OTHER -> "Fuel record not found or you do not have permission to delete it"

serverErrorMessage(kind, t) ==
  CASE t = VEH /\ kind = "create" -> "Server error while creating vehicle"
    [] t = VEH /\ kind = "list" -> "Server error while fetching vehicles"
    [] t = VEH /\ kind = "get" -> "Server error while fetching vehicle"
    [] t = VEH -> "Server error while deleting vehicle"
    [] t = OIL /\ kind = "create" -> "Server error while creating oil change record"
    [] t = OIL /\ kind = "list" -> "Server error while fetching oil change records"
    [] t = OIL /\ kind = "update" -> "Server error while updating oil change record"
    [] t = OIL -> "Server error while deleting oil change record"
    [] t = FUEL /\ kind = "create" -> "Server error while creating fuel record"
    [] t = FUEL /\ kind = "list" -> "Server error while fetching fuel records"
    [] t = FUEL /\ kind = "update" -> "Server error while updating fuel record"
    [] OTHER -> "Server error while deleting fuel record"

deletedMessage(t) ==
  CASE t = VEH -> "Vehicle deleted successfully"
    [] t = OIL -> "Oil change record deleted successfully"
    [] OTHER -> "Fuel record deleted successfully"

NotFound_forbidden(f) ==
  Response("controller", f, IF \E v \in vehicles : v.id = f.req.id THEN 403 ELSE 404,
           Failure(notFoundMessage(f.req.kind, f.req.table), {}))
NotFound(f) == Response("controller", f, 404, Failure(notFoundMessage(f.req.kind, f.req.table), {}))
ServerError_silent(f) == NoResp
ServerError(f) ==
  Response("controller", f, 500, Failure(serverErrorMessage(f.req.kind, f.req.table), {}))

\* pagination: { currentPage, totalPages, totalItems, limit }
Pagination(f) ==
  Some([currentPage |-> pageOf(f.req), totalPages |-> ceilDiv(f.totalItems, limitOf(f.req)),
        totalItems |-> f.totalItems, limit |-> limitOf(f.req)])

----------------------------------------------------------------------------
(* The state machine.                                                      *)

Init ==
  /\ vehicles = {}
  /\ children = [t \in ChildTables |-> {}]
  /\ nextId = [t \in Tables |-> 1]
  /\ inflight = [c \in Clients |-> Idle]
  /\ resp = NoResp
  /\ tbl \in ChildTables
  /\ removed = {}
  /\ pool = [variant |-> "part_005", vercel |-> FALSE, busy |-> 0]
  /\ conn = [c \in Clients |-> Detached]

\* A request arrives: router.use(authMiddleware), the route's validators, and the
\* controller up to its first statement, none of which waits for anything.
Receive(c) ==
  /\ Ready
  /\ inflight[c].pc = "idle"
  /\ \E req \in Sends(c) :
       /\ req.table \in {VEH, tbl}
       /\ req.kind = "create" => Issued + Reserved < MaxInserts
       /\ inflight' = [inflight EXCEPT ![c] =
                         [Flight(req, authMiddleware(req.header).user, firstPc(req))
                            EXCEPT !.late = Late(req)]]
  /\ resp' = NoResp
  /\ UNCHANGED <<vehicles, children, nextId, tbl, removed, pool, conn>>

\* A request arrives and is turned away, by the middleware (401, 500) or by the
\* controller's validationResult check (400).  It changes nothing, so it is drawn
\* when nothing is in flight.
Refuse(c) ==
  /\ Ready
  /\ c = "c1"
  /\ Quiet
  /\ \E req \in Rejected :
       LET auth == authMiddleware(req.header) IN
       resp' = IF ~auth.next
                 THEN Response("auth", Flight(req, NoUser, "idle"),
                               auth.status, Failure(auth.message, {}))
                 ELSE Response("validation",
                               [Flight(req, auth.user, "idle") EXCEPT !.late = Late(req)], 400,
                               Failure("Validation failed", validationResult(req)))
  /\ UNCHANGED <<vehicles, children, nextId, inflight, tbl, removed, pool, conn>>

\* app.use(cors(...)): an OPTIONS request is a preflight; the middleware ends it
\* with 204 and no body, and nothing after it runs
cors(c) ==
  /\ Ready
  /\ c = "c1"
  /\ Quiet
  /\ \E req \in AppRequests :
       /\ req.kind = "options"
       /\ resp' = Response("cors", Flight(req, NoUser, "idle"), 204, NoJson)
  /\ UNCHANGED <<vehicles, children, nextId, inflight, tbl, removed, pool, conn>>

\* the global error handler: the answer to an error of the given type when
\* NODE_ENV is mode
errorHandler_generic(type, mode) ==
  [status |-> 500,
   json |-> [Failure(IF mode = "production" THEN "Internal server error" ELSE "error.message", {})
               EXCEPT !.detail = (mode # "production")],
   env |-> mode]
errorHandler(type, mode) ==
  IF type = "entity.parse.failed"
    THEN [status |-> 400, json |-> Failure("Invalid JSON in request body", {}), env |-> "unread"]
  ELSE IF type = "entity.too.large"
    THEN [status |-> 413, json |-> Failure("Request entity too large", {}), env |-> "unread"]
  ELSE [status |-> 500,
        json |-> [Failure(IF mode = "production" THEN "Internal server error" ELSE "error.message", {})
                    EXCEPT !.detail = (mode # "production")],
        env |-> mode]

\* app.use(express.json({ limit: '10mb' })) / express.urlencoded: the parser gives
\* up on the body and hands its error to the global error handler; no router,
\* middleware or controller has seen the request
bodyParser(c) ==
  /\ Ready
  /\ c = "c1"
  /\ Quiet
  /\ \E req \in AppRequests, mode \in Modes :
       /\ req.kind = "create"
       /\ req.table \in {VEH, tbl}
       /\ LET answer == errorHandler(req.body.type, mode) IN
          resp' = [Response("parser", Flight(req, NoUser, "idle"), answer.status, answer.json)
                     EXCEPT !.env = answer.env]
  /\ UNCHANGED <<vehicles, children, nextId, inflight, tbl, removed, pool, conn>>

\* GET /health: pool.query('SELECT NOW() ...') answers, or throws and the catch
\* sends the error's code, name, message, severity, detail and hint
health(c) ==
  /\ Ready
  /\ c = "c1"
  /\ Quiet
  /\ \E req \in AppRequests, mode \in Modes :
       /\ req.kind = "health"
       /\ LET f == Sent(Flight(req, NoUser, "idle"), Stmt("SELECT", "none", "none")) IN
          \/ resp' = [Response("app", f, 200,
                               [Success(<<>>, Absent) EXCEPT !.message = "Server is healthy"])
                        EXCEPT !.env = mode]
          \/ resp' = [Response("app", f, 500,
                               [Failure("Server health check failed", {}) EXCEPT !.detail = TRUE])
                        EXCEPT !.env = mode]
  /\ UNCHANGED <<vehicles, children, nextId, inflight, tbl, removed, pool, conn>>

\* GET /
root(c) ==
  /\ Ready
  /\ c = "c1"
  /\ Quiet
  /\ \E req \in AppRequests :
       /\ req.kind = "root"
       /\ resp' = Response("app", Flight(req, NoUser, "idle"), 200,
                           [Success(<<>>, Absent) EXCEPT !.message = "Vehicle Maintenance Tracking API"])
  /\ UNCHANGED <<vehicles, children, nextId, inflight, tbl, removed, pool, conn>>

\* app.use('*', ...): no route matched
routeNotFound(c) ==
  /\ Ready
  /\ c = "c1"
  /\ Quiet
  /\ \E req \in AppRequests :
       /\ req.kind = "unknown"
       /\ resp' = Response("app", Flight(req, NoUser, "idle"), 404,
                           Failure("Route not found", {}))
  /\ UNCHANGED <<vehicles, children, nextId, inflight, tbl, removed, pool, conn>>

\* createVehicle: INSERT INTO vehicles ... RETURNING *
createVehicle(c) ==
  LET f == Sent(inflight[c], Stmt("INSERT", VEH, "owner")) IN
  /\ Ready
  /\ f.req.kind = "create" /\ f.req.table = VEH /\ f.pc = "insert"
  /\ \E ts \in currentTimestamp(vehicles, f.overlap) :
       LET row == newVehicle(nextId[VEH], f.user.id, f.req.body, ts) IN
       /\ vehicles' = vehicles \cup {row}
       /\ nextId' = [nextId EXCEPT ![VEH] = nextval(@)]
       /\ resp' = Response("controller", f, 201, Success(<<row>>, Absent))
       /\ inflight' = Overlap(Mark([inflight EXCEPT ![c] = Idle],
                                    [NoChange EXCEPT ![VEH] = {row}]), VEH)
  /\ UNCHANGED <<children, tbl, removed, pool, conn>>

\* getVehicles: SELECT COUNT(*) FROM vehicles WHERE user_id = $1 ...
getVehicles_count(c) ==
  LET f == Sent(inflight[c], Stmt("COUNT", VEH, "owner")) IN
  /\ Ready
  /\ f.req.kind = "list" /\ f.req.table = VEH /\ f.pc = "count"
  /\ inflight' = [inflight EXCEPT ![c] =
                    [f EXCEPT !.pc = "select",
                              !.totalItems = countVehicles(vehicles, f.user.id, f.req.search)]]
  /\ resp' = NoResp
  /\ UNCHANGED <<vehicles, children, nextId, tbl, removed, pool, conn>>

\* getVehicles: SELECT * FROM vehicles WHERE user_id = $1 ... ORDER BY ... LIMIT .. OFFSET ..
getVehicles_select(c) ==
  LET f == Sent(inflight[c], Stmt("SELECT", VEH, "owner")) IN
  /\ Ready
  /\ f.req.kind = "list" /\ f.req.table = VEH /\ f.pc = "select"
  /\ IF pageError(limitOf(f.req), offsetOf(f.req))
       THEN resp' = ServerError(f)
       ELSE \E data \in selectVehicles(vehicles, f.user.id, f.req.search,
                                       limitOf(f.req), offsetOf(f.req)) :
              resp' = Response("controller",
                               [f EXCEPT !.foreign = @ \/ \E i \in DOMAIN data :
                                                            data[i].user_id # f.user.id],
                               200, Success(data, Pagination(f)))
  /\ inflight' = [inflight EXCEPT ![c] = Idle]
  /\ UNCHANGED <<vehicles, children, nextId, tbl, removed, pool, conn>>

getVehicles(c) == getVehicles_count(c) \/ getVehicles_select(c)

\* getVehicleById: SELECT * FROM vehicles WHERE id = $1 AND user_id = $2
getVehicleById(c) ==
  LET f == Sent(inflight[c], Stmt("SELECT", VEH, "owner"))
      rows == selectVehicle(vehicles, f.req.id, f.user.id)
  IN
  /\ Ready
  /\ f.req.kind = "get" /\ f.pc = "select"
  /\ IF rows = {}
       THEN resp' = NotFound(f)
       ELSE \E row \in rows :
              resp' = Response("controller", [f EXCEPT !.foreign = @ \/ row.user_id # f.user.id],
                               200, Success(<<row>>, Absent))
  /\ inflight' = [inflight EXCEPT ![c] = Idle]
  /\ UNCHANGED <<vehicles, children, nextId, tbl, removed, pool, conn>>

\* deleteVehicle: SELECT id FROM vehicles WHERE id = $1 AND user_id = $2
deleteVehicle_check(c) ==
  LET f == Sent(inflight[c], Stmt("SELECT", VEH, "owner")) IN
  /\ Ready
  /\ f.req.kind = "delete" /\ f.req.table = VEH /\ f.pc = "check"
  /\ IF selectVehicle(vehicles, f.req.id, f.user.id) = {}
       THEN /\ resp' = NotFound(f)
            /\ inflight' = [inflight EXCEPT ![c] = Idle]
       ELSE /\ resp' = NoResp
            /\ inflight' = [inflight EXCEPT ![c] = [f EXCEPT !.pc = "delete"]]
  /\ UNCHANGED <<vehicles, children, nextId, tbl, removed, pool, conn>>

\* deleteVehicle: DELETE FROM vehicles WHERE id = $1 AND user_id = $2, and the cascade
deleteVehicle_delete(c) ==
  LET f == Sent(inflight[c], Stmt("DELETE", VEH, "owner"))
      gone == selectVehicle(vehicles, f.req.id, f.user.id)
      lost == [t \in ChildTables |-> cascaded(children[t], gone)]
  IN
  /\ Ready
  /\ f.req.kind = "delete" /\ f.req.table = VEH /\ f.pc = "delete"
  /\ vehicles' = vehicles \ gone
  /\ children' = [t \in ChildTables |-> children[t] \ lost[t]]
  /\ resp' = Response("controller",
                      [f EXCEPT !.affected = Cardinality(gone),
                                !.foreign = @ \/ \E v \in gone : v.user_id # f.user.id],
                      200, Success(<<[message |-> deletedMessage(VEH)]>>, Absent))
  /\ inflight' = Mark([inflight EXCEPT ![c] = Idle],
                      [t \in Tables |-> IF t = VEH THEN gone ELSE lost[t]])
  /\ removed' = removed \cup {[table |-> VEH, id |-> v.id] : v \in gone}
                         \cup UNION {{[table |-> t, id |-> r.id] : r \in lost[t]} : t \in ChildTables}
  /\ UNCHANGED <<nextId, tbl, pool, conn>>

deleteVehicle(c) == deleteVehicle_check(c) \/ deleteVehicle_delete(c)

\* verifyVehicleOwnership: SELECT id FROM vehicles WHERE id = $1 AND user_id = $2,
\* the first statement of createOilChange / createFuelRecord and of the two lists
verifyVehicleOwnership(c, t, kind) ==
  LET f == Sent(inflight[c], Stmt("SELECT", VEH, "owner")) IN
  /\ Ready
  /\ f.req.kind = kind /\ f.req.table = t /\ f.pc = "verify"
  /\ IF selectVehicle(vehicles, f.req.id, f.user.id) = {}
       THEN /\ resp' = NotFound(f)
            /\ inflight' = [inflight EXCEPT ![c] = Idle]
       ELSE /\ resp' = NoResp
            /\ inflight' = [inflight EXCEPT ![c] =
                              [f EXCEPT !.pc = IF kind = "create" THEN "insert" ELSE "count"]]
  /\ UNCHANGED <<vehicles, children, nextId, tbl, removed, pool, conn>>

\* createOilChange / createFuelRecord: INSERT INTO <t> (vehicle_id, ...) RETURNING *.
\* A parameter out of the column's range is refused before the statement runs.
\* The foreign key refuses a vehicle_id that is gone; the sequence has moved on.
createChild_insert(c, t) ==
  LET f == Sent(inflight[c], Stmt("INSERT", t, "none")) IN
  /\ Ready
  /\ f.req.kind = "create" /\ f.req.table = t /\ f.pc = "insert"
  /\ nextId' = IF outOfRange(t, f.req.body) THEN nextId ELSE [nextId EXCEPT ![t] = nextval(@)]
  /\ IF outOfRange(t, f.req.body) \/ ~references(vehicles, f.req.id)
       THEN /\ resp' = ServerError(f)
            /\ inflight' = [inflight EXCEPT ![c] = Idle]
            /\ UNCHANGED <<children, tbl, removed, pool, conn>>
       ELSE \E ts \in currentTimestamp(children[t], f.overlap) :
              LET row == newChild(t, nextId[t], f.req.id, f.req.body, ts) IN
              /\ children' = [children EXCEPT ![t] = @ \cup {row}]
              /\ resp' = Response("controller",
                                  [f EXCEPT !.foreign = @ \/ ownerOfVehicleId(vehicles, row.vehicle_id)
                                                              # f.user.id],
                                  201, Success(<<row>>, Absent))
              /\ inflight' = Overlap(Mark([inflight EXCEPT ![c] = Idle],
                                           [NoChange EXCEPT ![t] = {row}]), t)
  /\ UNCHANGED <<vehicles, tbl, removed, pool, conn>>

\* getOilChanges / getFuelRecords: SELECT COUNT(*) FROM <t> WHERE vehicle_id = $1
getChildren_count(c, t) ==
  LET f == Sent(inflight[c], Stmt("COUNT", t, "none")) IN
  /\ Ready
  /\ f.req.kind = "list" /\ f.req.table = t /\ f.pc = "count"
  /\ inflight' = [inflight EXCEPT ![c] =
                    [f EXCEPT !.pc = "select",
                              !.totalItems = countChildren(children[t], f.req.id),
                              !.foreign = @ \/ (countChildren(children[t], f.req.id) > 0
                                                /\ ownerOfVehicleId(vehicles, f.req.id) # f.user.id)]]
  /\ resp' = NoResp
  /\ UNCHANGED <<vehicles, children, nextId, tbl, removed, pool, conn>>

\* getOilChanges / getFuelRecords: SELECT * FROM <t> WHERE vehicle_id = $1 ORDER BY ...
getChildren_select(c, t) ==
  LET f == Sent(inflight[c], Stmt("SELECT", t, "none")) IN
  /\ Ready
  /\ f.req.kind = "list" /\ f.req.table = t /\ f.pc = "select"
  /\ IF pageError(limitOf(f.req), offsetOf(f.req))
       THEN resp' = ServerError(f)
       ELSE \E data \in selectChildren(t, children[t], f.req.id, limitOf(f.req), offsetOf(f.req)) :
              resp' = Response("controller",
                               [f EXCEPT !.foreign = @ \/ \E i \in DOMAIN data :
                                    ownerOfVehicleId(vehicles, data[i].vehicle_id) # f.user.id],
                               200, Success(data, Pagination(f)))
  /\ inflight' = [inflight EXCEPT ![c] = Idle]
  /\ UNCHANGED <<vehicles, children, nextId, tbl, removed, pool, conn>>

\* updateOilChange / deleteOilChange (and the fuel record twins): the check
\* SELECT c.id FROM <t> c JOIN vehicles v ON c.vehicle_id = v.id WHERE c.id = $1 AND v.user_id = $2
checkChild(c, t, kind) ==
  LET f == Sent(inflight[c], Stmt("SELECT", t, "join")) IN
  /\ Ready
  /\ f.req.kind = kind /\ f.req.table = t /\ f.pc = "check"
  /\ IF selectOwnedChild(vehicles, children[t], f.req.id, f.user.id) = {}
       THEN /\ resp' = NotFound(f)
            /\ inflight' = [inflight EXCEPT ![c] = Idle]
       ELSE /\ resp' = NoResp
            /\ inflight' = [inflight EXCEPT ![c] = [f EXCEPT !.pc = kind]]
  /\ UNCHANGED <<vehicles, children, nextId, tbl, removed, pool, conn>>

\* updateOilChange / updateFuelRecord: UPDATE <t> SET ... WHERE id = $4 RETURNING *;
\* the response carries result.rows[0], which is undefined when no row was left
updateChild_update(c, t) ==
  LET f == Sent(inflight[c], Stmt("UPDATE", t, "none"))
      old == IF outOfRange(t, f.req.body) THEN {} ELSE whereId(children[t], f.req.id)
      new == {updatedChild(t, r, f.req.body) : r \in old}
      g == [f EXCEPT !.affected = Cardinality(old),
                     !.foreign = @ \/ \E r \in old :
                                        ownerOfVehicleId(vehicles, r.vehicle_id) # f.user.id]
  IN
  /\ Ready
  /\ f.req.kind = "update" /\ f.req.table = t /\ f.pc = "update"
  /\ children' = [children EXCEPT ![t] = (@ \ old) \cup new]
  /\ IF outOfRange(t, f.req.body)
       THEN resp' = ServerError(f)
     ELSE IF new = {}
       THEN resp' = Response("controller", g, 200, Success(<<>>, Absent))
       ELSE \E row \in new : resp' = Response("controller", g, 200, Success(<<row>>, Absent))
  /\ inflight' = Mark([inflight EXCEPT ![c] = Idle], [NoChange EXCEPT ![t] = old])
  /\ UNCHANGED <<vehicles, nextId, tbl, removed, pool, conn>>

\* deleteOilChange / deleteFuelRecord: DELETE FROM <t> WHERE id = $1
deleteChild_delete(c, t) ==
  LET f == Sent(inflight[c], Stmt("DELETE", t, "none"))
      gone == whereId(children[t], f.req.id)
  IN
  /\ Ready
  /\ f.req.kind = "delete" /\ f.req.table = t /\ f.pc = "delete"
  /\ children' = [children EXCEPT ![t] = @ \ gone]
  /\ resp' = Response("controller",
                      [f EXCEPT !.affected = Cardinality(gone),
                                !.foreign = @ \/ \E r \in gone :
                                     ownerOfVehicleId(vehicles, r.vehicle_id) # f.user.id],
                      200, Success(<<[message |-> deletedMessage(t)]>>, Absent))
  /\ inflight' = Mark([inflight EXCEPT ![c] = Idle], [NoChange EXCEPT ![t] = gone])
  /\ UNCHANGED <<vehicles, nextId, tbl, removed, pool, conn>>

createOilChange(c) == verifyVehicleOwnership(c, OIL, "create") \/ createChild_insert(c, OIL)
getOilChanges(c) ==
  verifyVehicleOwnership(c, OIL, "list") \/ getChildren_count(c, OIL) \/ getChildren_select(c, OIL)
updateOilChange(c) == checkChild(c, OIL, "update") \/ updateChild_update(c, OIL)
deleteOilChange(c) == checkChild(c, OIL, "delete") \/ deleteChild_delete(c, OIL)

createFuelRecord(c) == verifyVehicleOwnership(c, FUEL, "create") \/ createChild_insert(c, FUEL)
getFuelRecords(c) ==
  verifyVehicleOwnership(c, FUEL, "list") \/ getChildren_count(c, FUEL) \/ getChildren_select(c, FUEL)
updateFuelRecord(c) == checkChild(c, FUEL, "update") \/ updateChild_update(c, FUEL)
deleteFuelRecord(c) == checkChild(c, FUEL, "delete") \/ deleteChild_delete(c, FUEL)

\* the response has left; the server turns to the next event
Flush ==
  /\ resp.sent
  /\ resp' = NoResp
  /\ UNCHANGED <<vehicles, children, nextId, inflight, tbl, removed, pool, conn>>

Next ==
  \/ Flush
  \/ \E c \in Clients :
    \/ cors(c)
    \/ bodyParser(c)
    \/ health(c)
    \/ root(c)
    \/ routeNotFound(c)
    \/ Receive(c)
    \/ Refuse(c)
    \/ createVehicle(c)
    \/ getVehicles(c)
    \/ getVehicleById(c)
    \/ deleteVehicle(c)
    \/ createOilChange(c)
    \/ getOilChanges(c)
    \/ updateOilChange(c)
    \/ deleteOilChange(c)
    \/ createFuelRecord(c)
    \/ getFuelRecords(c)
    \/ updateFuelRecord(c)
    \/ deleteFuelRecord(c)

Spec == Init /\ [][Next]_vars

----------------------------------------------------------------------------
(* The query helper and the connection pool.  The specification above takes *)
(* each statement as one step, made with a connection that was free; this    *)
(* one follows the helper through connect, query and release, with the store *)
(* left as it is.                                                             *)

\* the two db modules of the repository: part_004 hands its pool options to
\* new Pool as a second argument, which pg does not read, so the pool runs on
\* pg's defaults (max 10, no connection timeout); part_005 merges them into
\* the configuration
PoolConfigs ==
  {[variant |-> "part_004", vercel |-> v, busy |-> 0] : v \in BOOLEAN}
  \cup {[variant |-> "part_005", vercel |-> v, busy |-> 0] : v \in BOOLEAN}

ServerlessMax == 1
PoolMax == 20
DefaultMax == 10
ConnectionTimeoutMillis == 10000
NoTimeout == 0

\* max: process.env.VERCEL ? 1 : 20
max(p) ==
  IF p.variant = "part_005" THEN (IF p.vercel THEN ServerlessMax ELSE PoolMax) ELSE DefaultMax

connectionTimeoutMillis(p) ==
  IF p.variant = "part_005" THEN ConnectionTimeoutMillis ELSE NoTimeout

\* connections checked out: by the clients and by the other work of the process
checkedOut == pool.busy + Cardinality({c \in Clients : conn[c].held})

\* the requests followed through the helper, and the statements their controllers
\* send one after the other: createVehicle one, getVehicles two
PoolRequests ==
  {Req("create", VEH, [scheme |-> "Bearer ", token |-> Jws("good", "past", "future", 1)],
       0, NoQuery, Absent, b) : b \in DefaultBody(VEH)}
  \cup {Req("list", VEH, [scheme |-> "Bearer ", token |-> Jws("good", "past", "future", 1)],
            0, NoQuery, Absent, NoBody)}

statements(req) == IF req.kind = "create" THEN 1 ELSE 2

InitPool ==
  /\ vehicles = {}
  /\ children = [t \in ChildTables |-> {}]
  /\ nextId = [t \in Tables |-> 1]
  /\ inflight = [c \in Clients |-> Idle]
  /\ resp = NoResp
  /\ tbl = OIL
  /\ removed = {}
  /\ pool \in PoolConfigs
  /\ conn = [c \in Clients |-> Detached]

\* a request arrives and its controller calls db.query
query_call(c) ==
  /\ Ready
  /\ conn[c].pc = "idle"
  /\ \E req \in PoolRequests :
       conn' = [conn EXCEPT ![c] = [pc |-> "connect", held |-> FALSE,
                                    left |-> statements(req), req |-> req]]
  /\ resp' = NoResp
  /\ UNCHANGED <<vehicles, children, nextId, inflight, tbl, removed, pool>>

\* const client = await pool.connect(): a connection is free
query_connect(c) ==
  /\ Ready
  /\ conn[c].pc = "connect"
  /\ checkedOut < max(pool)
  /\ conn' = [conn EXCEPT ![c].pc = "query", ![c].held = TRUE]
  /\ resp' = NoResp
  /\ UNCHANGED <<vehicles, children, nextId, inflight, tbl, removed, pool>>

\* await pool.connect() rejects after connectionTimeoutMillis with every
\* connection checked out; the controller's catch answers 500
query_timeout(c) ==
  /\ Ready
  /\ conn[c].pc = "connect"
  /\ checkedOut >= max(pool)
  /\ connectionTimeoutMillis(pool) > 0
  /\ conn' = [conn EXCEPT ![c] = Detached]
  /\ resp' = ServerError([Flight(conn[c].req, [id |-> 1, email |-> Email(1)], "idle")
                            EXCEPT !.stmts = <<>>])
  /\ UNCHANGED <<vehicles, children, nextId, inflight, tbl, removed, pool>>

\* client.query resolves; finally client.release(); the controller goes on to its
\* next statement or answers
query_return(c) ==
  /\ Ready
  /\ conn[c].pc = "query"
  /\ IF conn[c].left > 1
       THEN /\ conn' = [conn EXCEPT ![c].pc = "connect", ![c].held = FALSE, ![c].left = @ - 1]
            /\ resp' = NoResp
       ELSE /\ conn' = [conn EXCEPT ![c] = Detached]
            /\ resp' = Response("controller",
                                Flight(conn[c].req, [id |-> 1, email |-> Email(1)], "idle"),
                                IF conn[c].req.kind = "create" THEN 201 ELSE 200,
                                Success(<<>>, Absent))
  /\ UNCHANGED <<vehicles, children, nextId, inflight, tbl, removed, pool>>

\* client.query rejects; catch rethrows, finally client.release(); the
\* controller's catch answers 500
query_throw(c) ==
  /\ Ready
  /\ conn[c].pc = "query"
  /\ conn' = [conn EXCEPT ![c] = Detached]
  /\ resp' = ServerError(Sent(Flight(conn[c].req, [id |-> 1, email |-> Email(1)], "idle"),
                              Stmt("SELECT", VEH, "owner")))
  /\ UNCHANGED <<vehicles, children, nextId, inflight, tbl, removed, pool>>

\* other work of the process takes a connection for a query of its own
other_connect ==
  /\ Ready
  /\ checkedOut < max(pool)
  /\ pool' = [pool EXCEPT !.busy = @ + 1]
  /\ resp' = NoResp
  /\ UNCHANGED <<vehicles, children, nextId, inflight, tbl, removed, conn>>

\* and gives it back when its query is over
other_release ==
  /\ Ready
  /\ pool.busy > 0
  /\ pool' = [pool EXCEPT !.busy = @ - 1]
  /\ resp' = NoResp
  /\ UNCHANGED <<vehicles, children, nextId, inflight, tbl, removed, conn>>

NextPool ==
  \/ Flush
  \/ other_connect
  \/ other_release
  \/ \E c \in Clients :
    \/ query_call(c)
    \/ query_connect(c)
    \/ query_timeout(c)
    \/ query_return(c)
    \/ query_throw(c)

SpecPool == InitPool /\ [][NextPool]_vars

----------------------------------------------------------------------------
(* Properties of the authorization-scoped CRUD and pagination layer.       *)

\* the response comes from a route behind router.use(authMiddleware): from the
\* validation check or from the controller
Routed == resp.stage \in {"validation", "controller"}

\* the owners of the row the request addresses, in the current store
TargetOwners(req) ==
  IF TargetTable(req) = VEH
    THEN {v.user_id : v \in {w \in vehicles : w.id = req.id}}
    ELSE {ownerOfVehicleId(vehicles, r.vehicle_id) :
            r \in {x \in children[req.table] : x.id = req.id}}

CrossTenant(req, user) == Addressed(req) /\ \E o \in TargetOwners(req) : o # user.id

\* the id the request addresses was never given to a row
NeverCreated(req) == Addressed(req) /\ req.id >= nextId[TargetTable(req)]

\* C1 (amended): tenant isolation.  No request of a principal returns, updates or
\* deletes a vehicle of another principal, or a child record of another
\* principal's vehicle; a cross-tenant request that passes its route's validation
\* is answered 404, one that fails it is answered 400, and none is answered success.
C1_TenantIsolation ==
  /\ \A c \in Clients : ~inflight[c].foreign
  /\ ~resp.foreign
  /\ (resp.sent /\ Routed /\ CrossTenant(resp.req, resp.user))
       => resp.status = IF resp.stage = "validation" THEN 400 ELSE 404

\* C1 as stated: ... and every cross-tenant request is answered 404.
C1_EveryCrossTenant404 ==
  /\ \A c \in Clients : ~inflight[c].foreign
  /\ ~resp.foreign
  /\ (resp.sent /\ Routed /\ CrossTenant(resp.req, resp.user))
       => resp.status = 404

\* an update of another principal's child record has just been answered 404
C1_Witness ==
  /\ resp.sent /\ resp.stage = "controller" /\ resp.req.kind = "update"
  /\ CrossTenant(resp.req, resp.user)
  /\ resp.status = 404

ReadUpdateDelete == {"SELECT", "COUNT", "UPDATE", "DELETE"}
OwnerScoped(stmts) ==
  \A i \in DOMAIN stmts :
    stmts[i].verb \in ReadUpdateDelete => stmts[i].scope \in {"owner", "join"}

\* C3: every statement a read, update or delete operation sends carries the owner
\* scope in its own predicate (user_id directly, or through the join to vehicles);
\* none selects, updates or deletes by id alone.
C3_OwnerScopedStatements ==
  /\ \A c \in Clients : OwnerScoped(inflight[c].stmts)
  /\ Routed => OwnerScoped(resp.stmts)

\* the header is a Bearer token that verifies, and user is its payload
Verified(header, user) ==
  /\ header.scheme = "Bearer "
  /\ jwtVerify(header.token).ok
  /\ user = [id |-> header.token.id, email |-> header.token.email]

\* C4: authentication gate.  A controller runs, and a statement is sent, only for
\* a request whose Authorization header is a Bearer token that verifies, and the
\* principal the controller uses is the id and email of the token's payload.
C4_AuthenticationGate ==
  /\ \A c \in Clients :
       inflight[c].pc # "idle" => Verified(inflight[c].req.header, inflight[c].user)
  /\ (resp.sent /\ Routed) => Verified(resp.req.header, resp.user)
  /\ (resp.sent /\ resp.stage = "auth") => resp.stmts = <<>> /\ resp.status >= 400

\* a controller has answered a request of user 2 after sending a statement
C4_Witness ==
  /\ resp.sent /\ resp.stage = "controller" /\ resp.stmts # <<>>
  /\ resp.user = [id |-> 2, email |-> Email(2)]
  /\ resp.status = 201

\* the four failure classes: no header, a header without the "Bearer " prefix,
\* a signed token past its expiry, a token with a bad signature or structure
FailureClass(header) ==
  CASE header.scheme = "none" -> "missing"
    [] header.scheme # "Bearer " -> "format"
    [] header.token.form = "empty" -> "other"
    [] header.token.form # "jws" \/ header.token.sig # "good" -> "invalid"
    [] header.token.nbf # "future" /\ header.token.exp = "past" -> "expired"
    [] OTHER -> "other"

\* C5: each of the four authentication failure classes is answered 401, and the
\* messages of two different classes differ.
C5_AuthFailureClasses ==
  (resp.sent /\ resp.stage = "auth" /\ FailureClass(resp.req.header) # "other")
  => /\ resp.status = 401
     /\ \A h \in Headers :
          FailureClass(h) \notin {"other", FailureClass(resp.req.header)}
            => authMiddleware(h).message # resp.json.message

\* an expired token has just been turned away
C5_Witness ==
  /\ resp.sent /\ resp.stage = "auth" /\ FailureClass(resp.req.header) = "expired"
  /\ resp.status = 401

\* C6: validation short-circuit on every endpoint.  A request that violates a
\* declared constraint of its route is answered 400 listing the violations, and
\* no statement is sent for it.
C6_ValidationShortCircuit ==
  /\ \A c \in Clients : inflight[c].pc # "idle" => declaredErrors(inflight[c].req) = {}
  /\ (resp.sent /\ Routed /\ declaredErrors(resp.req) # {})
       => /\ resp.status = 400
          /\ resp.json.errors = declaredErrors(resp.req)
          /\ resp.stmts = <<>>

\* C7: for every list request that reaches the store the limit is in 1..100, the
\* page is at least 1 and the offset at least 0; absent parameters give page 1 and
\* limit 10.
C7_PageAndLimitInRange ==
  \A c \in Clients :
    LET req == inflight[c].req IN
    (req.kind = "list" /\ inflight[c].pc # "idle")
    => /\ limitOf(req) \in 1..100
       /\ pageOf(req) >= 1
       /\ offsetOf(req) >= 0
       /\ req.query.page = Absent => pageOf(req) = 1
       /\ req.query.limit = Absent => limitOf(req) = 10

\* C8: in every successful list response totalPages = ceil(totalItems / limit);
\* when totalItems is 0, totalPages is 0, data is empty and the status is success.
C8_TotalPages ==
  (resp.sent /\ resp.req.kind = "list" /\ resp.status = 200)
  => LET p == Val(resp.json.pagination) IN
     /\ p.totalPages * p.limit >= p.totalItems
     /\ (p.totalPages - 1) * p.limit < p.totalItems
     /\ p.totalItems = 0 =>
          p.totalPages = 0 /\ resp.json.data = <<>> /\ resp.json.status = "success"

\* page sizes tried on the stores the model reaches
PageSizes == {1, 2}

\* C9: pagination coverage.  With the store unchanged, whatever pages 1..ceil(N/L)
\* of a principal's vehicle list the store returns, every one of the N vehicles
\* is on exactly one of them.
C9_PaginationCoverage ==
  \A u \in Users, L \in PageSizes :
    LET N == countVehicles(vehicles, u, Absent)
        P == ceilDiv(N, L)
        page(p) == selectVehicles(vehicles, u, Absent, L, (p - 1) * L)
    IN \A pages \in [1..P -> UNION {page(p) : p \in 1..P}] :
         (\A p \in 1..P : pages[p] \in page(p))
         => \A v \in {w \in vehicles : w.user_id = u} :
              Cardinality({pi \in (1..P) \X (1..L) :
                             /\ pi[2] <= Len(pages[pi[1]])
                             /\ pages[pi[1]][pi[2]] = v}) = 1

\* C10: a list request for a page beyond totalPages is answered success with
\* empty data, never with an error; listing vehicles with limit=1, page=2 while
\* exactly one vehicle of the principal exists gives data = [] and totalPages = 1.
C10_EmptyPage ==
  (resp.sent /\ resp.req.kind = "list" /\ resp.stage = "controller" /\ resp.status # 404)
  => /\ resp.status = 500 => pageOf(resp.req) < 1
     /\ resp.status = 200 =>
          LET p == Val(resp.json.pagination) IN
          /\ p.currentPage > p.totalPages =>
               resp.json.data = <<>> /\ resp.json.status = "success"
          /\ (/\ resp.req.table = VEH /\ p.limit = 1 /\ p.currentPage = 2
              /\ countVehicles(vehicles, resp.user.id, resp.req.search) = 1)
             => resp.json.data = <<>> /\ p.totalPages = 1

\* str contains sub as a substring
contains(str, sub) ==
  \E i \in 0..(Len(str) - Len(sub)) : SubSeq(str, i + 1, i + Len(sub)) = sub

\* search terms tried on the stores the model reaches
SearchTerms ==
  {Absent, Some(<<>>), Some(<<"c">>), Some(<<"I">>), Some(<<"x">>), Some(<<"_">>), Some(<<"%">>)}

\* the principal's vehicles whose name or license plate contains the term as a
\* case-insensitive substring; all of them for an empty or absent term
referenceFilter(vs, userId, search) ==
  {v \in vs :
     /\ v.user_id = userId
     /\ \/ search = Absent
        \/ Val(search) = <<>>
        \/ contains(toLowerCase(v.name), toLowerCase(Val(search)))
        \/ /\ v.license_plate # Absent
           /\ contains(toLowerCase(Val(v.license_plate)), toLowerCase(Val(search)))}

\* C11: for every search term and every set of vehicles the vehicle list and its
\* totalItems are exactly the principal's vehicles whose name or license plate
\* contains the term as a case-insensitive substring; an empty or absent term
\* gives the full scoped set, a term contained in no name or plate the empty set.
C11_SearchIsSubstringFilter ==
  \A u \in Users, s \in SearchTerms :
    LET ref == referenceFilter(vehicles, u, s) IN
    /\ countVehicles(vehicles, u, s) = Cardinality(ref)
    /\ \A data \in selectVehicles(vehicles, u, s, DefaultLimit, 0) :
         {data[i] : i \in DOMAIN data} = ref

\* C12 (amended): cascade.  Once a deleteVehicle took a vehicle away, no oil change
\* and no fuel record with that vehicle id is in the store, and every list, update
\* or delete request that arrives later for that vehicle or one of its former
\* children, by any principal, is answered 404, or 400 when it is an update
\* whose body violates a field constraint.
C12_Cascade ==
  /\ \A x \in removed :
       x.table = VEH => \A t \in ChildTables : \A r \in children[t] : r.vehicle_id # x.id
  /\ (resp.sent /\ resp.late /\ Routed
        /\ resp.req.kind \in {"list", "update", "delete"})
       => resp.status = IF resp.stage = "validation" THEN 400 ELSE 404

\* C12 as stated: ... every later list, update or delete request is answered 404.
C12_EveryLaterRequest404 ==
  /\ \A x \in removed :
       x.table = VEH => \A t \in ChildTables : \A r \in children[t] : r.vehicle_id # x.id
  /\ (resp.sent /\ resp.late /\ Routed
        /\ resp.req.kind \in {"list", "update", "delete"})
       => resp.status = 404

\* the former owner's update of a child record that went with its vehicle has
\* just been answered 404
C12_Witness ==
  /\ resp.sent /\ resp.late /\ resp.stage = "controller"
  /\ resp.req.kind = "update" /\ resp.req.table \in ChildTables
  /\ \E x \in removed : x.table = VEH /\ x.id = 1
  /\ resp.user.id = 1
  /\ resp.status = 404

\* C13: no orphans.  In every reachable state, also while requests overlap, every
\* oil change and every fuel record references a vehicle that exists and every
\* vehicle references a user that exists; a deleteVehicle that runs between the
\* ownership check of a create and its INSERT leaves no child row behind.
C13_NoOrphans ==
  /\ \A t \in ChildTables : \A r \in children[t] : \E v \in vehicles : v.id = r.vehicle_id
  /\ \A v \in vehicles : v.user_id \in Users

\* a create passed its ownership check, the vehicle was deleted, and the INSERT
\* was refused by the foreign key
C13_Witness ==
  /\ resp.sent /\ resp.req.kind = "create" /\ resp.req.table \in ChildTables
  /\ ~resp.late /\ resp.status = 500
  /\ [table |-> VEH, id |-> resp.req.id] \in removed
  /\ \E i \in DOMAIN resp.stmts : resp.stmts[i].verb = "INSERT"

\* the fields a create body submits, as they stand in a row
SubmittedIn(t, b, r) ==
  IF t = VEH
    THEN r.name = b.name /\ (b.license_plate # Absent => r.license_plate = b.license_plate)
  ELSE IF t = OIL
    THEN /\ r.change_date = b.change_date /\ r.mileage = b.mileage
         /\ (b.notes # Absent => r.notes = b.notes)
    ELSE /\ r.fill_date = b.fill_date /\ r.price_per_liter = b.price_per_liter
         /\ r.liters_filled = b.liters_filled

\* the rows with the given id that getVehicleById, or the list of the vehicle's
\* child records, hands to the principal
ReadBack(t, id, vehicleId, userId) ==
  IF t = VEH THEN selectVehicle(vehicles, id, userId)
  ELSE {r \in UNION {{data[i] : i \in DOMAIN data} :
                        data \in selectChildren(t, children[t], vehicleId, DefaultLimit, 0)} :
          r.id = id}

\* C14: round-trip.  When a create of a vehicle, an oil change or a fuel record
\* with validated field values has been answered, reading the row back
\* (getVehicleById, or the list for child records) returns a row whose fields
\* equal the values submitted, plus the id and created_at the server assigned.
C14_RoundTrip ==
  (resp.sent /\ resp.req.kind = "create" /\ resp.status = 201) =>
    LET t == resp.req.table
        back == ReadBack(t, resp.json.data[1].id, resp.req.id, resp.user.id)
    IN /\ back # {}
       /\ \A r \in back : /\ SubmittedIn(t, resp.req.body, r)
                          /\ r.id >= 1 /\ r.created_at >= 1

\* the validation check refused the field
Refused(field) == resp.stage = "validation" /\ field \in resp.json.errors

\* C15: numeric boundaries on create and update.  mileage is accepted if and only
\* if it is an integer >= 0; price_per_liter and liters_filled are each accepted
\* if and only if the value is > 0; every accepted value is stored without a
\* storage error (the only 500 left is the create whose vehicle was deleted).
C15_NumericBoundaries ==
  (resp.sent /\ Routed /\ resp.req.kind \in {"create", "update"}
     /\ resp.req.table \in ChildTables) =>
    /\ resp.req.table = OIL =>
         (Refused("mileage") <=> ~geq(resp.req.body.mileage, Num(0, 0)))
    /\ resp.req.table = FUEL =>
         /\ Refused("price_per_liter") <=> ~(resp.req.body.price_per_liter > 0)
         /\ Refused("liters_filled") <=> ~(resp.req.body.liters_filled > 0)
    /\ resp.status = 500 =>
         resp.req.kind = "create" /\ [table |-> VEH, id |-> resp.req.id] \in removed

\* the envelope of the response on its way out
Envelope ==
  /\ resp.json.status \in {"success", "error"}
  /\ resp.json.status = "error" <=> resp.status >= 400
  /\ resp.json.status = "error" => resp.json.message # ""

\* C16 (amended): uniform envelope.  Every response that a route, the
\* authentication middleware, the 404 handler or the global error handler sends
\* has a status field equal to "success" or "error"; status is "error" exactly
\* when the HTTP status is >= 400, and every error response carries a message.
\* The answer of the CORS middleware to an OPTIONS request is 204 without a body.
C16_UniformEnvelope ==
  resp.sent =>
    IF resp.stage = "cors"
      THEN resp.status = 204 /\ resp.json = NoJson
      ELSE Envelope

\* C16 as stated: every response sent by any route, middleware or error handler
\* has the envelope.
C16_EveryResponseEnvelope == resp.sent => Envelope

\* the global error handler has answered an oversized body with the envelope
C16_Witness ==
  /\ resp.sent /\ resp.stage = "parser" /\ resp.status = 413
  /\ resp.json.status = "error" /\ resp.json.message = "Request entity too large"

\* a statement sent to the store failed and the request was answered 500
StoreFailure == resp.sent /\ resp.status = 500 /\ resp.stmts # <<>>

\* the modes the process may run in when it sends the response: the NODE_ENV value
\* the handler read, or any value when the handler reads none
ModesOf(r) == IF r.env = "unread" THEN Modes ELSE {r.env}

\* C17: 500 redaction by mode.  A store failure is answered 500; in every mode
\* other than development the message is generic and the response carries no
\* error detail, and in development mode the response carries the error detail.
C17_RedactionByMode ==
  StoreFailure => \A mode \in ModesOf(resp) : resp.json.detail <=> mode = "development"

\* the body of the request is one the body parser gives up on
Unparsable(req) == DOMAIN req.body = {"type"}

\* C18: a request whose body is malformed JSON is answered 400 and a request whose
\* body exceeds the size limit is answered 413; the response is produced before
\* the authentication middleware or any controller logic runs and before any
\* store query is issued.
C18_PayloadErrors ==
  /\ \A c \in Clients : ~Unparsable(inflight[c].req)
  /\ (resp.sent /\ Unparsable(resp.req)) =>
       /\ resp.req.body.type = "entity.parse.failed" => resp.status = 400
       /\ resp.req.body.type = "entity.too.large" => resp.status = 413
       /\ resp.stage = "parser" /\ resp.user = NoUser /\ resp.stmts = <<>>

\* a POST without a token and with malformed JSON has been answered 400, not 401
C18_Witness ==
  /\ resp.sent /\ Unparsable(resp.req) /\ resp.req.body.type = "entity.parse.failed"
  /\ resp.req.header.scheme = "none"
  /\ resp.status = 400 /\ resp.json.message = "Invalid JSON in request body"

\* the request of client c waits in pool.connect() with every connection checked out
Starved(c) == conn[c].pc = "connect" /\ checkedOut >= max(pool)

\* C19: connection pool discipline.  A connection the query helper acquired is
\* released when its query finishes, whether it resolves or throws; the number of
\* checked-out connections never exceeds the pool bound; no request holds a
\* connection while it waits for another, so whenever a request waits with the
\* pool exhausted, some holder can finish without a further connection; and a
\* request that cannot acquire a connection fails with an acquisition timeout,
\* answered as a 500 error response.
C19_PoolDiscipline ==
  /\ \A c \in Clients : conn[c].held <=> conn[c].pc = "query"
  /\ checkedOut <= max(pool)
  /\ max(pool) >= 1
  /\ \A c \in Clients :
       Starved(c) => \/ pool.busy > 0
                     \/ \E d \in Clients : conn[d].held /\ conn[d].pc # "connect"
  /\ \A c \in Clients : (Ready /\ Starved(c)) => ENABLED query_timeout(c)
  /\ (resp.sent /\ resp.status >= 400) => resp.status = 500 /\ resp.json.status = "error"

Mutating == {"INSERT", "UPDATE", "DELETE"}
Mutations(stmts) == Cardinality({i \in DOMAIN stmts : stmts[i].verb \in Mutating})

\* one row more in one table, the other tables as they were
OneInserted ==
  \/ /\ \E r \in vehicles' \ vehicles : vehicles' = vehicles \cup {r}
     /\ UNCHANGED children
  \/ /\ \E t \in ChildTables :
          /\ \E r \in children'[t] \ children[t] : children'[t] = children[t] \cup {r}
          /\ \A u \in ChildTables \ {t} : children'[u] = children[u]
     /\ UNCHANGED vehicles

\* one child row with new field values, under the same id, vehicle and created_at
OneUpdated ==
  /\ \E t \in ChildTables :
       /\ \E r \in children[t] : \E w \in children'[t] :
            /\ children'[t] = (children[t] \ {r}) \cup {w}
            /\ w.id = r.id /\ w.vehicle_id = r.vehicle_id /\ w.created_at = r.created_at
       /\ \A u \in ChildTables \ {t} : children'[u] = children[u]
  /\ UNCHANGED vehicles

\* one child row less, or one vehicle less together with exactly its children
OneDeleted ==
  \/ /\ \E t \in ChildTables :
          /\ \E r \in children[t] : children'[t] = children[t] \ {r}
          /\ \A u \in ChildTables \ {t} : children'[u] = children[u]
     /\ UNCHANGED vehicles
  \/ \E v \in vehicles :
       /\ vehicles' = vehicles \ {v}
       /\ \A t \in ChildTables : children'[t] = {r \in children[t] : r.vehicle_id # v.id}

FrameStep ==
  /\ \/ UNCHANGED <<vehicles, children>>
     \/ OneInserted
     \/ OneUpdated
     \/ OneDeleted
  /\ \A c \in Clients : Mutations(inflight'[c].stmts) <= 1
  /\ resp'.sent =>
       /\ Mutations(resp'.stmts) <= 1
       /\ Mutations(resp'.stmts) = 0 => UNCHANGED <<vehicles, children>>
       /\ resp'.status \in {400, 401, 404} =>
            Mutations(resp'.stmts) = 0 /\ UNCHANGED <<vehicles, children>>

\* C20: frame.  Each request either leaves the store unchanged or applies exactly
\* one mutation in full, in one step: one inserted row, one updated row, or one
\* deleted row together with its cascaded children; a request answered 400, 401
\* or 404 has sent no mutating statement and leaves the tables unchanged.
C20_Frame == [][FrameStep]_vars

\* a deleteVehicle has been answered success after its one DELETE took the
\* vehicle and a child record with it
C20_Witness ==
  /\ resp.sent /\ resp.req.kind = "delete" /\ resp.req.table = VEH /\ resp.status = 200
  /\ Mutations(resp.stmts) = 1
  /\ \E x \in removed : x.table \in ChildTables
  /\ \A v \in vehicles : v.id # resp.req.id

\* the request carries a Bearer token that does not verify
VerificationFails(req) ==
  /\ req.header.scheme = "Bearer "
  /\ ~(/\ req.header.token.form = "jws" /\ req.header.token.sig = "good"
       /\ req.header.token.nbf = "past" /\ req.header.token.exp = "future")

\* a well-formed token with a good signature, valid by now, past its expiry
ExpiredToken(req) ==
  /\ req.header.token.form = "jws" /\ req.header.token.sig = "good"
  /\ req.header.token.nbf = "past" /\ req.header.token.exp = "past"

\* C21: whenever token verification fails for any reason (bad signature,
\* malformed structure, empty token, expired, not yet valid), the middleware
\* answers 401 and no other status: an expired token gets the expired message,
\* every other verification failure the invalid-token message.
C21_VerificationFailure401 ==
  (resp.sent /\ resp.stage \in {"auth", "validation", "controller"}
     /\ VerificationFails(resp.req)) =>
    /\ resp.stage = "auth"
    /\ resp.status = 401
    /\ resp.json.message = IF ExpiredToken(resp.req) THEN "Token expired" ELSE "Invalid token"

\* the sequences a list statement may return for the first page of a principal's
\* vehicles, or of the child records of a vehicle
VehicleLists(u) == selectVehicles(vehicles, u, Absent, DefaultLimit, 0)
ChildLists(t, vehicleId) == selectChildren(t, children[t], vehicleId, DefaultLimit, 0)

\* C22: list ordering is a deterministic total order.  For every store state,
\* also with rows that tie on the sort keys, the same list request returns the
\* rows in one sequence only: vehicles newest first, child records by date
\* descending and then by creation descending.
C22_DeterministicOrder ==
  /\ \A u \in Users :
       /\ Cardinality(VehicleLists(u)) = 1
       /\ \A data \in VehicleLists(u) : \A i, j \in DOMAIN data :
            i < j => data[i].created_at >= data[j].created_at
  /\ \A t \in ChildTables : \A vehicleId \in IdParams :
       /\ Cardinality(ChildLists(t, vehicleId)) = 1
       /\ \A data \in ChildLists(t, vehicleId) : \A i, j \in DOMAIN data :
            i < j => \/ DateOf(t, data[i]) > DateOf(t, data[j])
                     \/ /\ DateOf(t, data[i]) = DateOf(t, data[j])
                        /\ data[i].created_at >= data[j].created_at

\* the request carries no token that verifies
BadCredentials(req) == req.header.scheme # "Bearer " \/ VerificationFails(req)

\* C23: stage order.  A resource request passes the request validator before the
\* credential verifier; hence a request that has both a field violation and a
\* missing or invalid token is answered by the validator stage (400) and not by
\* the credential stage.
C23_StageOrder ==
  (resp.sent /\ resp.stage \in {"auth", "validation", "controller"}
     /\ declaredErrors(resp.req) # {} /\ BadCredentials(resp.req)) =>
    resp.stage = "validation" /\ resp.status = 400

\* the rows of table t in a store
RowsOf(vs, ch, t) == IF t = VEH THEN vs ELSE ch[t]
IdsOf(vs, ch, t) == {r.id : r \in RowsOf(vs, ch, t)}

\* every id in a table was given out by the table's sequence, to one row
IdsIssued ==
  \A t \in Tables :
    /\ \A r \in RowsOf(vehicles, children, t) : r.id >= 1 /\ r.id < nextId[t]
    /\ \A a, b \in RowsOf(vehicles, children, t) : a.id = b.id => a = b

\* a step gives a new row the next id of the sequence, above every id given
\* before, moves the sequence on, and leaves the rows that stay under their ids
IdStep ==
  \A t \in Tables :
    /\ nextId'[t] >= nextId[t]
    /\ IdsOf(vehicles', children', t) \subseteq IdsOf(vehicles, children, t) \cup {nextId[t]}
    /\ nextId[t] \in IdsOf(vehicles', children', t) => nextId'[t] > nextId[t]
    /\ \A r \in RowsOf(vehicles, children, t) : \A w \in RowsOf(vehicles', children', t) :
         w.id = r.id => w.created_at = r.created_at

\* C24: identifiers.  Within each table the id given to a newly created row is
\* strictly greater than every id assigned before it, an id is never assigned
\* again after its row is deleted, and no operation changes the id of an
\* existing row.
C24_Identifiers == []IdsIssued /\ [][IdStep]_vars

\* vehicle 1 was deleted and the vehicle created after it has id 2
C24_Witness ==
  /\ [table |-> VEH, id |-> 1] \in removed
  /\ \E v \in vehicles : v.id = 2
  /\ nextId[VEH] = 3

\* C25: every create or update request answered with status success carries in
\* data the full row as stored (id, parent id, all fields, created_at), under any
\* interleaving, also when the record or its parent vehicle is deleted between
\* the update's ownership check and its UPDATE statement.
C25_SuccessCarriesRow ==
  (resp.sent /\ Routed /\ resp.req.kind \in {"create", "update"}
     /\ resp.json.status = "success") =>
    /\ Len(resp.json.data) = 1
    /\ resp.json.data[1] \in RowsOf(vehicles, children, resp.req.table)
    /\ resp.req.kind = "update" => resp.json.data[1].id = resp.req.id

\* the rows a step takes away or rewrites, with the principal they belong to
TouchedOwners ==
  {v.user_id : v \in vehicles \ vehicles'}
  \cup UNION {{ownerOfVehicleId(vehicles, r.vehicle_id) : r \in children[t] \ children'[t]} :
                t \in ChildTables}

OwnerStep ==
  /\ \A v \in vehicles : \A w \in vehicles' : w.id = v.id => w.user_id = v.user_id
  /\ \A t \in ChildTables : \A r \in children[t] : \A w \in children'[t] :
       w.id = r.id => w.vehicle_id = r.vehicle_id
  /\ (resp'.sent /\ resp'.req.kind \in {"update", "delete"}) =>
       TouchedOwners \subseteq {resp'.user.id}

\* C26: ownership is immutable.  No operation changes the user_id of an existing
\* vehicle or the vehicle_id of an existing oil change or fuel record, and the
\* row an UPDATE or DELETE changes after its ownership check passed is a row of
\* the requesting principal.
C26_OwnershipImmutable == [][OwnerStep]_vars

\* user 2's update of an own oil change or fuel record went through its
\* ownership check and changed the row, which is on user 2's vehicle as before
C26_Witness ==
  /\ resp.sent /\ resp.req.kind = "update" /\ resp.status = 200 /\ resp.affected = 1
  /\ resp.user.id = 2
  /\ Len(resp.json.data) = 1
  /\ ownerOfVehicleId(vehicles, resp.json.data[1].vehicle_id) = 2

\* the values an update body asks for, as they stand in row w
Requested(t, b, w) ==
  IF t = OIL
    THEN /\ w.change_date = b.change_date /\ w.mileage = b.mileage
         /\ w.notes = (IF b.notes = Absent \/ Val(b.notes) = <<>> THEN Absent ELSE b.notes)
    ELSE /\ w.fill_date = b.fill_date /\ w.price_per_liter = b.price_per_liter
         /\ w.liters_filled = b.liters_filled

UpdateStep ==
  (resp'.sent /\ resp'.req.kind = "update" /\ resp'.json.status = "success"
     /\ resp'.affected = 1) =>
    LET t == resp'.req.table IN
    /\ \E r \in children[t] : \E w \in children'[t] :
         /\ r.id = resp'.req.id /\ w.id = r.id
         /\ w.vehicle_id = r.vehicle_id /\ w.created_at = r.created_at
         /\ Requested(t, resp'.req.body, w)
         /\ children'[t] \ {w} = children[t] \ {r}
    /\ \A u \in ChildTables \ {t} : children'[u] = children[u]
    /\ vehicles' = vehicles

\* C27: update frame.  A successful updateOilChange sets change_date, mileage and
\* notes of the addressed row to the request's values (notes null when omitted
\* or empty), a successful updateFuelRecord sets fill_date, price_per_liter and
\* liters_filled; the row's id, vehicle_id and created_at and every other row in
\* every table are left unchanged.
C27_UpdateFrame == [][UpdateStep]_vars

\* C28: list snapshot consistency.  In every successful list response totalItems
\* and data describe the same store state: data has exactly
\* min(limit, max(0, totalItems - offset)) rows, also when another request inserts
\* or deletes a matching row, or deletes the parent vehicle, between the
\* ownership check, the count query and the item query.
C28_ListSnapshot ==
  (resp.sent /\ resp.req.kind = "list" /\ resp.status = 200) =>
    LET p == Val(resp.json.pagination)
        rest == p.totalItems - offsetOf(resp.req)
    IN Len(resp.json.data) = Min2(p.limit, IF rest > 0 THEN rest ELSE 0)

\* C30: a delete request (vehicle, oil change or fuel record) is answered
\* success only if its own DELETE statement removed the row, so of two
\* concurrent deletes of one row only one is answered success.
C30_DeleteSuccessOwnDelete ==
  (resp.sent /\ resp.req.kind = "delete" /\ resp.status = 200) => resp.affected >= 1

----------------------------------------------------------------------------
(* Progress.  A request that is waiting for the store is taken up again when *)
(* its statement returns or throws: the event loop runs every callback that  *)
(* is ready, and a response that was written leaves.                          *)

FairInserts == 2

\* the request of client c is in flight: received and not yet answered
Pending(c) == inflight[c].pc # "idle"

\* every step a controller takes for client c when a statement has returned
Serve(c) ==
  \/ createVehicle(c) \/ getVehicles(c) \/ getVehicleById(c) \/ deleteVehicle(c)
  \/ createOilChange(c) \/ getOilChanges(c) \/ updateOilChange(c) \/ deleteOilChange(c)
  \/ createFuelRecord(c) \/ getFuelRecords(c) \/ updateFuelRecord(c) \/ deleteFuelRecord(c)

\* a request arrives, with at most FairInserts inserts made or in flight
Admit(c) == Receive(c) /\ (Issued + Reserved)' <= FairInserts

NextFair ==
  \/ Flush
  \/ \E c \in Clients :
    \/ cors(c)
    \/ bodyParser(c)
    \/ health(c)
    \/ root(c)
    \/ routeNotFound(c)
    \/ Admit(c)
    \/ Refuse(c)
    \/ Serve(c)

\* every store query eventually returns or throws, and the callback waiting
\* for it runs; requests keep arriving or not, as they please
Fairness == WF_vars(Flush) /\ \A c \in Clients : SF_vars(Serve(c))

SpecFair == Init /\ [][NextFair]_vars /\ Fairness

\* a step answers the request of c: the request leaves flight with a response
\* that is its own, and no other request leaves flight with it
Answers(c) ==
  /\ Pending(c) /\ ~Pending(c)'
  /\ resp'.sent /\ resp'.req = inflight[c].req
  /\ \A d \in Clients \ {c} : Pending(d)' = Pending(d)

OneResponseStep ==
  /\ \A c \in Clients : (Pending(c) /\ ~Pending(c)') => Answers(c)
  /\ (resp'.sent /\ \E c \in Clients : Pending(c))
       => \/ \E c \in Clients : Answers(c)
          \/ \A c \in Clients : Pending(c)' = Pending(c)
  /\ \A c \in Clients : (~Pending(c) /\ Pending(c)') => ~resp'.sent

\* C29: every request eventually receives exactly one response: a request in
\* flight is answered in the end, the step that ends it writes its response,
\* and no step writes a response for a request that stays in flight.
C29_ExactlyOneResponse ==
  /\ [][OneResponseStep]_vars
  /\ \A c \in Clients : Pending(c) ~> ~Pending(c)

\* a statement threw, the catch block answered 500, and another request is
\* still waiting for the store
C29_Witness ==
  /\ resp.sent /\ resp.stage = "controller" /\ resp.status = 500
  /\ \E c \in Clients : Pending(c)

====
